---- MODULE Spec2Model ----
(***************************************************************************)
(* Fretboard-King: the level-progression and quiz-generation engine of     *)
(* App.tsx (difficulty envelopes, quiz generation, adaptive timer) and the *)
(* round state machine that React drives through state setters, effects    *)
(* and setTimeout callbacks.                                               *)
(*                                                                         *)
(* React semantics used by the model:                                      *)
(*  - a handler or a timeout callback runs against the closure of the      *)
(*    render that created it; its setState calls are batched into one      *)
(*    commit;                                                              *)
(*  - after a commit every effect whose dependency list changed runs its   *)
(*    previous cleanup and then its body, in declaration order;            *)
(*  - functional updates (setX(x => ...)) read the current state, plain    *)
(*    updates (setX(v)) write the value computed from the closure.         *)
(***************************************************************************)
EXTENDS Integers, Sequences, FiniteSets, Bags, TLC

\* ------------------------------------------------------------ constants

STRINGS == <<"E", "B", "G", "D", "A", "E">>

FRETS == 12

NOTE_NAMES == <<"C", "C#", "D", "D#", "E", "F", "F#", "G", "G#", "A", "A#", "B">>

QUESTIONS_PER_ROUND == 15

MAX_LEVEL == 26

\* delay of the feedback pause before the next question (setTimeout(..., 1200))
ADVANCE_DELAY == 1200

\* delay of one countdown step (setTimeout(..., 1000))
TICK_DELAY == 1000

\* the value of `selected` and `feedback` when nothing is selected / shown
NULL == "null"

\* no countdown timeout is pending (cleared, fired, or never scheduled)
NoTimeout == -1

\* ------------------------------------------------------------ bounds

\* Math.random() is drawn from a bounded source: getRandomInt(max) returns one
\* of MaxRand values of 0..max-1 (the lowest MaxRand - 1 ones and the highest).
MaxRand == 2

\* number of draws the option loop of getRandomQuiz is followed for
MaxDraws == 3

\* number of questions delivered (setQuiz calls) after the first round
MaxLaterDeliveries == 2

\* number of stopRound clicks over a whole behaviour
MaxStops == 1

\* number of answers clicked while a 1200 ms callback is pending (within 1.2 s
\* of a time-up, or of a stop and restart), over a whole behaviour
MaxHastyAnswers == 1

\* draws of the option loop a call is followed for
MaxLoopDraws == 101

\* the persisted base timer the application starts with (slider range 2..10)
InitBaseTimer == 2

\* ------------------------------------------------------------ helpers

Min(a, b) == IF a <= b THEN a ELSE b

Max(a, b) == IF a >= b THEN a ELSE b

Range(s) == {s[i] : i \in 1..Len(s)}

SeqToBag(s) == [n \in Range(s) |-> Cardinality({i \in 1..Len(s) : s[i] = n})]

\* ------------------------------------------------------------ DifficultyModel

\* isRepetitionLevel with every third level counted from 0 (shows what C19 rests on)
isRepetitionLevelFromZero(level) == level > 0 /\ level % 3 = 0

isRepetitionLevel(level) == level > 0 /\ (level + 1) % 3 = 0

\* getRepetitionLevelRange reaching back three levels (shows what C20 rests on)
getRepetitionLevelRangeOfThree(level) ==
  IF ~isRepetitionLevel(level)
  THEN [start |-> level, end |-> level]
  ELSE [start |-> Max(0, (level - 1) - 2), end |-> level - 1]

getRepetitionLevelRange(level) ==
  IF ~isRepetitionLevel(level)
  THEN [start |-> level, end |-> level]
  ELSE [start |-> Max(0, (level - 1) - 1), end |-> level - 1]

getProgressionLevelWithinGroup(level) == level % 3

getProgressionLevelCountsRepetitions(level) == level

getProgressionLevelRoundsUp(level) == level - ((level + 2) \div 3)

getProgressionLevelHalved(level) == level - (level \div 2)

getProgressionLevel(level) == level - (level \div 3)

ProgressionTablePastLastFret(progLevel) ==
  CASE progLevel = 0 -> [minString |-> 5, maxFret |-> 1]
    [] progLevel = 1 -> [minString |-> 5, maxFret |-> 2]
    [] progLevel = 2 -> [minString |-> 4, maxFret |-> 2]
    [] progLevel = 3 -> [minString |-> 4, maxFret |-> 3]
    [] progLevel = 4 -> [minString |-> 4, maxFret |-> 4]
    [] progLevel = 5 -> [minString |-> 3, maxFret |-> 4]
    [] progLevel = 6 -> [minString |-> 3, maxFret |-> 5]
    [] progLevel = 7 -> [minString |-> 2, maxFret |-> 5]
    [] progLevel = 8 -> [minString |-> 2, maxFret |-> 6]
    [] progLevel = 9 -> [minString |-> 1, maxFret |-> 6]
    [] progLevel = 10 -> [minString |-> 1, maxFret |-> 7]
    [] progLevel = 11 -> [minString |-> 0, maxFret |-> 7]
    [] progLevel = 12 -> [minString |-> 0, maxFret |-> 8]
    [] progLevel = 13 -> [minString |-> 0, maxFret |-> 9]
    [] progLevel = 14 -> [minString |-> 0, maxFret |-> 10]
    [] progLevel = 15 -> [minString |-> 0, maxFret |-> 11]
    [] OTHER -> [minString |-> 0, maxFret |-> FRETS]

\* the table of regular levels, indexed by progression level
ProgressionTable(progLevel) ==
  CASE progLevel = 0 -> [minString |-> 5, maxFret |-> 1]
    [] progLevel = 1 -> [minString |-> 5, maxFret |-> 2]
    [] progLevel = 2 -> [minString |-> 4, maxFret |-> 2]
    [] progLevel = 3 -> [minString |-> 4, maxFret |-> 3]
    [] progLevel = 4 -> [minString |-> 4, maxFret |-> 4]
    [] progLevel = 5 -> [minString |-> 3, maxFret |-> 4]
    [] progLevel = 6 -> [minString |-> 3, maxFret |-> 5]
    [] progLevel = 7 -> [minString |-> 2, maxFret |-> 5]
    [] progLevel = 8 -> [minString |-> 2, maxFret |-> 6]
    [] progLevel = 9 -> [minString |-> 1, maxFret |-> 6]
    [] progLevel = 10 -> [minString |-> 1, maxFret |-> 7]
    [] progLevel = 11 -> [minString |-> 0, maxFret |-> 7]
    [] progLevel = 12 -> [minString |-> 0, maxFret |-> 8]
    [] progLevel = 13 -> [minString |-> 0, maxFret |-> 9]
    [] progLevel = 14 -> [minString |-> 0, maxFret |-> 10]
    [] progLevel = 15 -> [minString |-> 0, maxFret |-> 11]
    [] OTHER -> [minString |-> 0, maxFret |-> FRETS - 1]

SetMin(S) == CHOOSE x \in S : \A y \in S : x <= y

SetMaxOfFirst(S) == CHOOSE x \in S : \A y \in S : x <= y

SetMax(S) == CHOOSE x \in S : \A y \in S : x >= y

RECURSIVE getLevelConstraints(_)
getLevelConstraints(level) ==
  IF isRepetitionLevel(level)
  THEN LET range == getRepetitionLevelRange(level)
           constraints == {getLevelConstraints(i) :
                             i \in {j \in range.start..range.end : ~isRepetitionLevel(j)}}
       IN [minString |-> SetMin({c.minString : c \in constraints}),
           maxFret |-> SetMax({c.maxFret : c \in constraints})]
  ELSE ProgressionTable(getProgressionLevel(level))

getRequiredScoreForLevel == (QUESTIONS_PER_ROUND * 8 + 9) \div 10

\* ------------------------------------------------------------ NoteMath

indexOf(note) ==
  IF note \in Range(NOTE_NAMES)
  THEN (CHOOSE i \in 1..Len(NOTE_NAMES) : NOTE_NAMES[i] = note) - 1
  ELSE -1

\* getNoteName without the fret (shows what C15 rests on)
getNoteNameIgnoresFret(openNote, fret) == openNote

getNoteNameOfNextFret(openNote, fret) ==
  NOTE_NAMES[((indexOf(openNote) + fret + 1) % 12) + 1]

getNoteName(openNote, fret) == NOTE_NAMES[((indexOf(openNote) + fret) % 12) + 1]

\* ------------------------------------------------------------ QuizGenerator

\* Math.floor(Math.random() * max) with the random source restricted to `rand`
\* outcomes: the rand - 1 lowest values and the highest one.
RandomInt(max, rand) == {v \in 0..(max - 1) : v < rand - 1 \/ v = max - 1}

\* the random source unrestricted (no call asks for more than 12 values)
FullRand == Len(NOTE_NAMES)

\* Math.floor(Math.random() * max), the random source bounded by MaxRand
getRandomInt(max) == RandomInt(max, MaxRand)

\* the loop body without its includes test (shows what C14 rests on)
OptionStepPushesAlways(options, n) == Append(options, n)

\* if (!options.includes(n)) options.push(n)
OptionStep(options, n) == IF n \in Range(options) THEN options ELSE Append(options, n)

\* while (options.length < 3) { n = NOTE_NAMES[getRandomInt(12)];
\*                              if (!options.includes(n)) options.push(n) }
\* followed for at most `draws` draws: the option lists the loop ends with.
RECURSIVE OptionLoopOf(_, _, _)
OptionLoopOf(options, draws, rand) ==
  IF Len(options) >= 3 THEN {options}
  ELSE IF draws = 0 THEN {}
  ELSE UNION {OptionLoopOf(OptionStep(options, NOTE_NAMES[r + 1]), draws - 1, rand) :
                r \in RandomInt(12, rand)}

OptionLoop(options, draws) == OptionLoopOf(options, draws, MaxRand)

\* options.sort(() => Math.random() - 0.5): the comparator is inconsistent, so
\* the resulting order is implementation-defined; the options are kept as the
\* bag of the list's entries (the list up to its order).
Shuffle(options) == SeqToBag(options)

\* the shuffled option lists per correct note, computed once
OptionsTable ==
  [rand \in {MaxRand, FullRand} |->
     [note \in Range(NOTE_NAMES) |->
        {Shuffle(o) : o \in OptionLoopOf(<<note>>, MaxDraws, rand)}]]

RandomQuiz(level, rand) ==
  LET constraints == getLevelConstraints(level)
      stringRange == 5 - constraints.minString + 1
  IN UNION {
       LET stringIdx == constraints.minString + s
           correctNote == getNoteName(STRINGS[stringIdx + 1], fretIdx)
       IN {[stringIdx |-> stringIdx, fretIdx |-> fretIdx,
            correctNote |-> correctNote, options |-> o] :
             o \in OptionsTable[rand][correctNote]} :
       s \in RandomInt(stringRange, rand),
       fretIdx \in RandomInt(constraints.maxFret + 1, rand)}

getRandomQuiz(level) == RandomQuiz(level, MaxRand)

\* ------------------------------------------------------------ Persistence

\* A stored item is its text, a sequence of characters. getItem of a missing key
\* returns null; null and '' are both falsy, which is all the initializers test
\* of them, and both are the empty sequence here.
Missing == <<>>

Digits == <<"0", "1", "2", "3", "4", "5", "6", "7", "8", "9">>

DigitValue(ch) == (CHOOSE i \in 1..Len(Digits) : Digits[i] = ch) - 1

\* The number NaN, kept as an integer below every level and score the model
\* computes with: like NaN it is no natural number, `NaN > 0` is false and no
\* row of the progression table matches it.
NaN == -1000000

RECURSIVE TrimStart(_)
TrimStart(text) ==
  IF text # <<>> /\ Head(text) = " " THEN TrimStart(Tail(text)) ELSE text

\* the number of leading decimal digits of text
LeadingDigits(text) ==
  LET others == {i \in 1..Len(text) : text[i] \notin Range(Digits)}
  IN IF others = {} THEN Len(text) ELSE SetMin(others) - 1

RECURSIVE DecimalValue(_)
DecimalValue(digits) ==
  IF digits = <<>> THEN 0
  ELSE (10 * DecimalValue(SubSeq(digits, 1, Len(digits) - 1)))
         + DigitValue(digits[Len(digits)])

\* parseInt(text, 10): leading white space is skipped, a sign read, then the
\* longest run of digits; NaN if there is none; what follows is ignored.
parseInt(text) ==
  LET t == TrimStart(text)
      signed == t # <<>> /\ Head(t) \in {"+", "-"}
      body == IF signed THEN Tail(t) ELSE t
      n == LeadingDigits(body)
  IN IF n = 0 THEN NaN
     ELSE IF signed /\ Head(t) = "-" THEN -DecimalValue(SubSeq(body, 1, n))
     ELSE DecimalValue(SubSeq(body, 1, n))

RECURSIVE DecimalDigits(_)
DecimalDigits(n) ==
  IF n < 10 THEN <<Digits[n + 1]>>
  ELSE Append(DecimalDigits(n \div 10), Digits[(n % 10) + 1])

\* n.toString()
toString(n) ==
  IF n = NaN THEN <<"N", "a", "N">>
  ELSE IF n < 0 THEN <<"-">> \o DecimalDigits(-n)
  ELSE DecimalDigits(n)

\* the fields of the settings the model keeps
getDefaultSettings == [baseTimer |-> 5, adaptiveTiming |-> TRUE]

\* The settings item is missing, text that JSON.parse rejects, or the JSON of an
\* object holding some of the fields.
\* { ...getDefaultSettings(), ...JSON.parse(item || '{}') } in try / catch
loadSettings(item) ==
  IF item.kind # "object" THEN getDefaultSettings
  ELSE [k \in DOMAIN getDefaultSettings |->
          IF k \in item.fields THEN item.object[k] ELSE getDefaultSettings[k]]

\* stored ? parseInt(stored, 10) : 0
loadPlayerLevel(stored) == IF stored # Missing THEN parseInt(stored) ELSE 0

\* storedDate === todayStr() && storedScore ? parseInt(storedScore, 10) : 0
loadScore(storedDate, storedScore) ==
  IF storedDate = "today" /\ storedScore # Missing THEN parseInt(storedScore) ELSE 0

\* what the persist effects write for a level, a score and the settings
Persist(level, points, s) ==
  [settings |-> [kind |-> "object", fields |-> DOMAIN s, object |-> s],
   level |-> toString(level),
   score |-> toString(points),
   date |-> "today"]

\* ------------------------------------------------------------ AdaptiveTimer

\* ---- the number type: IEEE 754 doubles, round to nearest, ties to even

\* Naturals of any size are little-endian sequences of limbs in 0..Limb-1.
LimbBits == 12

Limb == 2 ^ LimbBits

\* bits of the significand of a double
MantissaBits == 53

\* bits a quotient is computed to before it is rounded to a double
QuotientBits == 72

Get(x, i) == IF i \in 1..Len(x) THEN x[i] ELSE 0

\* a natural below 2^31 as limbs
BigOfNat(n) == <<n % Limb, (n \div Limb) % Limb, n \div (Limb * Limb)>>

\* limbs holding a natural below 2^31 as that natural
BigToNat(x) == Get(x, 1) + (Get(x, 2) * Limb) + (Get(x, 3) * Limb * Limb)

RECURSIVE Carry(_, _)
Carry(cols, c) ==
  IF cols = <<>>
  THEN IF c = 0 THEN <<>> ELSE <<c % Limb>> \o Carry(<<>>, c \div Limb)
  ELSE <<(Head(cols) + c) % Limb>> \o Carry(Tail(cols), (Head(cols) + c) \div Limb)

BigAdd(x, y) == Carry([i \in 1..Max(Len(x), Len(y)) |-> Get(x, i) + Get(y, i)], 0)

RECURSIVE Borrow(_, _)
Borrow(cols, b) ==
  IF cols = <<>> THEN <<>>
  ELSE <<(Head(cols) - b) % Limb>>
         \o Borrow(Tail(cols), IF Head(cols) - b < 0 THEN 1 ELSE 0)

\* x - y for x >= y
BigSub(x, y) == Borrow([i \in 1..Max(Len(x), Len(y)) |-> Get(x, i) - Get(y, i)], 0)

RECURSIVE ColSum(_, _, _, _)
ColSum(x, y, k, i) ==
  IF i = 0 THEN 0 ELSE (Get(x, i) * Get(y, k + 1 - i)) + ColSum(x, y, k, i - 1)

BigMul(x, y) ==
  Carry([k \in 1..(Len(x) + Len(y)) |-> ColSum(x, y, k, Min(k, Len(x)))], 0)

RECURSIVE BigCmpFrom(_, _, _)
BigCmpFrom(x, y, i) ==
  IF i = 0 THEN 0
  ELSE IF Get(x, i) > Get(y, i) THEN 1
  ELSE IF Get(x, i) < Get(y, i) THEN -1
  ELSE BigCmpFrom(x, y, i - 1)

\* -1, 0 or 1 as x is less than, equal to or greater than y
BigCmp(x, y) == BigCmpFrom(x, y, Max(Len(x), Len(y)))

RECURSIVE TopLimb(_, _)
TopLimb(x, i) == IF i = 0 THEN 0 ELSE IF x[i] # 0 THEN i ELSE TopLimb(x, i - 1)

\* number of bits of x (0 for 0)
BitLen(x) ==
  LET t == TopLimb(x, Len(x))
  IN IF t = 0 THEN 0
     ELSE (LimbBits * (t - 1))
          + (CHOOSE k \in 1..LimbBits : (2 ^ (k - 1)) <= x[t] /\ x[t] < (2 ^ k))

\* floor(x / 2^d)
ShiftRight(x, d) ==
  LET q == d \div LimbBits
      r == d % LimbBits
  IN [i \in 1..Max(Len(x) - q, 0) |->
        (Get(x, i + q) \div (2 ^ r))
          + ((Get(x, i + q + 1) % (2 ^ r)) * (2 ^ (LimbBits - r)))]

\* x * 2^d
ShiftLeft(x, d) ==
  LET q == d \div LimbBits
      r == d % LimbBits
  IN [i \in 1..(Len(x) + q + 1) |->
        ((Get(x, i - q) * (2 ^ r)) % Limb)
          + (Get(x, i - q - 1) \div (2 ^ (LimbBits - r)))]

\* long division of x by the small natural b, from limb i down, remainder r carried in
RECURSIVE DivFrom(_, _, _, _)
DivFrom(x, b, i, r) ==
  IF i = 0 THEN [q |-> <<>>, r |-> r]
  ELSE LET cur == (r * Limb) + x[i]
           rest == DivFrom(x, b, i - 1, cur % b)
       IN [q |-> rest.q \o <<cur \div b>>, r |-> rest.r]

\* A double >= 0 is [m, e] with value m * 2^e, m of exactly MantissaBits bits
\* (or 0). Rounding a natural to MantissaBits bits, step by step:
\* the quotient q1 after rounding may have grown by one bit
Renormalize(q1, e) ==
  IF BitLen(q1) > MantissaBits
  THEN [m |-> ShiftRight(q1, 1), e |-> e + 1]
  ELSE [m |-> q1, e |-> e]

\* q is m without its d lowest bits, c compares what was cut off with half a
\* unit of q: above half rounds up, a tie rounds to the even neighbour
RoundQuotient(q, c, e) ==
  Renormalize(IF c > 0 \/ (c = 0 /\ Get(q, 1) % 2 = 1) THEN BigAdd(q, <<1>>) ELSE q, e)

CutBits(m, d, q, e) ==
  RoundQuotient(q, BigCmp(BigSub(m, ShiftLeft(q, d)), ShiftLeft(<<1>>, d - 1)), e + d)

RoundBits(m, len, e) ==
  IF len = 0 THEN [m |-> <<>>, e |-> 0]
  ELSE IF len <= MantissaBits
  THEN [m |-> ShiftLeft(m, MantissaBits - len), e |-> e - (MantissaBits - len)]
  ELSE CutBits(m, len - MantissaBits, ShiftRight(m, len - MantissaBits), e)

\* the nearest double to m * 2^e for any natural m, ties to even
RoundToDouble(m, e) == RoundBits(m, BitLen(m), e)

\* the double of an integer value
DoubleOfNat(n) == RoundToDouble(BigOfNat(n), 0)

\* a / b in doubles for naturals a, b (b > 0); also the double a decimal
\* literal such as 1.3 = 13 / 10 denotes. The quotient is computed to
\* QuotientBits bits with a sticky bit for the remainder, then rounded.
DoubleOfRatio(a, b) ==
  LET num == ShiftLeft(BigOfNat(a), QuotientBits)
      d == DivFrom(num, b, Len(num), 0)
  IN RoundToDouble(BigAdd(ShiftLeft(d.q, 1), IF d.r # 0 THEN <<1>> ELSE <<>>),
                   0 - QuotientBits - 1)

DoubleMul(x, y) == RoundToDouble(BigMul(x.m, y.m), x.e + y.e)

\* -1, 0 or 1 as x is less than, equal to or greater than y
DoubleCmp(x, y) ==
  LET e0 == Min(x.e, y.e)
  IN BigCmp(ShiftLeft(x.m, x.e - e0), ShiftLeft(y.m, y.e - e0))

\* x - y for x >= y
DoubleSub(x, y) ==
  LET e0 == Min(x.e, y.e)
  IN RoundToDouble(BigSub(ShiftLeft(x.m, x.e - e0), ShiftLeft(y.m, y.e - e0)), e0)

\* Math.round(x) for a double x >= 0 below 2^31: the nearest integer, a tie
\* going up
MathRoundDown(x) ==
  IF x.e >= 0 THEN BigToNat(ShiftLeft(x.m, x.e))
  ELSE BigToNat(ShiftRight(x.m, 0 - x.e))

MathRound(x) ==
  IF x.e >= 0 THEN BigToNat(ShiftLeft(x.m, x.e))
  ELSE BigToNat(ShiftRight(x.m, 0 - x.e))
       + (Get(ShiftRight(x.m, 0 - x.e - 1), 1) % 2)

\* the literals 1.3, 2.0 and 0.7
Double_1_3 == DoubleOfRatio(13, 10)

Double_2_0 == DoubleOfNat(2)

Double_0_7 == DoubleOfRatio(7, 10)

\* Math.max(x, y)
MathMax(x, y) == IF DoubleCmp(x, y) < 0 THEN y ELSE x

\* Math.max(0.7, Math.min(2.0, 2.0 - product)) for product = recentPerformance *
\* 1.3. The product is >= 0, so Math.min yields the difference; a product above
\* 2.0 makes the difference negative and Math.max yields 0.7.
MultiplierOfProduct(product) ==
  IF DoubleCmp(product, Double_2_0) > 0 THEN Double_0_7
  ELSE MathMax(Double_0_7, DoubleSub(Double_2_0, product))

\* the multiplier for recentPerformance = a / b
Multiplier(a, b) == MultiplierOfProduct(DoubleMul(DoubleOfRatio(a, b), Double_1_3))

\* Math.round(baseTimer * multiplier)
AdaptiveSeconds(baseTimer, a, b) ==
  MathRound(DoubleMul(DoubleOfNat(baseTimer), Multiplier(a, b)))

\* the values of the base timer slider (min="2" max="10")
BaseTimers == 2..10

\* Multiplier and AdaptiveSeconds tabulated (computed once) for the base
\* timers of the slider and the in-round ratios a / b
MultiplierTable ==
  [a \in 0..(QUESTIONS_PER_ROUND + 2) |->
    [b \in 1..QUESTIONS_PER_ROUND |-> Multiplier(a, b)]]

AdaptiveSecondsTable ==
  [baseTimer \in BaseTimers |->
    [a \in 0..(QUESTIONS_PER_ROUND + 2) |->
      [b \in 1..QUESTIONS_PER_ROUND |->
        MathRound(DoubleMul(DoubleOfNat(baseTimer), MultiplierTable[a][b]))]]]

\* getCalculatedTimer of the render c; recentPerformance = a / b
getCalculatedTimer(c) ==
  IF ~c.settings.adaptiveTiming THEN c.settings.baseTimer
  ELSE LET a == IF c.roundActive THEN c.roundScore ELSE c.score
           b == IF c.roundActive THEN Max(c.questionsInRound, 1) ELSE Max(c.score + 10, 1)
       IN IF /\ c.settings.baseTimer \in BaseTimers
             /\ a \in 0..(QUESTIONS_PER_ROUND + 2)
             /\ b \in 1..QUESTIONS_PER_ROUND
          THEN AdaptiveSecondsTable[c.settings.baseTimer][a][b]
          ELSE AdaptiveSeconds(c.settings.baseTimer, a, b)

\* ------------------------------------------------------------ App state

VARIABLES
  settings,          \* [baseTimer, adaptiveTiming]
  playerLevel,
  score,
  quiz,              \* [stringIdx, fretIdx, correctNote, options]
  selected,          \* the selected option, or NULL
  feedback,          \* the kind of the feedback message, or NULL
  timer,
  roundActive,
  questionsInRound,
  roundScore,
  tickTimeout,       \* the timer value captured by the pending countdown timeout, or NoTimeout
  advanceTimeouts,   \* the pending 1200 ms callbacks, in firing order, each with the render it closes over
  feedbackTimeouts,  \* number of pending 2000 ms callbacks of stopRound
  \* history variables (they record what happened; nothing of the program reads them)
  deliveredLater,    \* number of questions delivered after the first round
  roundNo,           \* number of startRound calls so far
  startScore,        \* score when the latest round started
  startLevel,        \* playerLevel when the latest round started
  stoppedRounds,     \* the rounds (by number) that stopRound stopped
  hastyAnswers,      \* number of answers accepted while a 1200 ms callback was pending
  resolved,          \* accepted answers and time-ups of the running round
  accepted,          \* answers accepted for the current question of the running round
  scoreAtDelivery,   \* roundScore when the current question of the running round was delivered
  lastOp,            \* the operation that took the last step
  generating,        \* the getRandomQuiz call followed draw by draw: its locals
  resolving,         \* the getNoteName call: its arguments and the note it returns
  levelMap,          \* the game-level-map element LevelMap created: its configuration and the marker states drawn
  localStorage       \* the items under the settings, player level, score and date keys

appVars == <<settings, playerLevel, score, quiz, selected, feedback, timer,
             roundActive, questionsInRound, roundScore>>

timeoutVars == <<tickTimeout, advanceTimeouts, feedbackTimeouts>>

roundHistory == <<roundNo, startScore, startLevel, stoppedRounds>>

questionHistory == <<deliveredLater, accepted, scoreAtDelivery>>

historyVars == <<roundHistory, questionHistory, hastyAnswers, resolved, lastOp>>

vars == <<appVars, timeoutVars, historyVars, generating, resolving, levelMap, localStorage>>

\* what the persist effects have written once they ran for the current state
Persisted == Persist(playerLevel, score, settings)

\* the latest round was stopped
stopped == roundNo \in stoppedRounds

\* The state of the component as one render sees it: what the closures of that
\* render (handlers, effects, timeout callbacks) read.
Render ==
  [settings |-> settings, playerLevel |-> playerLevel, score |-> score,
   quiz |-> quiz, selected |-> selected, feedback |-> feedback, timer |-> timer,
   roundActive |-> roundActive, questionsInRound |-> questionsInRound,
   roundScore |-> roundScore]

\* A 1200 ms callback scheduled by render r. It closes over questionsInRound,
\* endRound (roundScore, playerLevel), getCalculatedTimer and playerLevel of r.
\* kind and round tag the callback with what scheduled it; ticks counts the
\* countdown steps taken since it was scheduled. A callback scheduled by the
\* commit of startRound (the round becomes active) belongs to the round that
\* starts.
Closure(r, kind) ==
  [questionsInRound |-> r.questionsInRound, roundScore |-> r.roundScore,
   playerLevel |-> r.playerLevel, roundActive |-> r.roundActive, score |-> r.score,
   settings |-> r.settings,
   kind |-> kind,
   round |-> IF r.roundActive /\ ~roundActive THEN roundNo + 1 ELSE roundNo,
   ticks |-> 0]

\* dependency lists
endRoundDeps(r) == <<r.roundScore, r.playerLevel>>

getCalculatedTimerDeps(r) ==
  <<r.settings.adaptiveTiming, r.settings.baseTimer, r.roundActive, r.roundScore,
    r.questionsInRound, r.score>>

timerEffectDeps(r) ==
  <<r.timer, r.selected, r.roundActive, r.questionsInRound, endRoundDeps(r),
    getCalculatedTimerDeps(r), r.playerLevel>>

initialTimerEffectDeps(r) ==
  <<r.roundActive, r.questionsInRound, getCalculatedTimerDeps(r)>>

\* the timer effect without its early return (shows what C10 rests on)
TimerEffectTickAlways(r) ==
  IF r.timer = 0 THEN NoTimeout
  ELSE r.timer

TimerEffectTickWhileSelected(r) ==
  IF ~r.roundActive THEN NoTimeout
  ELSE IF r.timer = 0 THEN NoTimeout
  ELSE r.timer

\* The countdown timeout after the timer effect ran for render r (its cleanup
\* cleared the previous one): none when the effect returns early or time is up.
TimerEffectTick(r) ==
  IF ~r.roundActive \/ r.selected # NULL THEN NoTimeout
  ELSE IF r.timer = 0 THEN NoTimeout
  ELSE r.timer

TimerEffectTimeUpNever(r) == FALSE

\* The timer effect of render r shows "Time up!" and schedules the advance.
TimerEffectTimeUp(r) == r.roundActive /\ r.selected = NULL /\ r.timer = 0

\* The initial-timer effect of render r sets the timer.
InitialTimerEffectSets(r) == r.roundActive /\ r.questionsInRound = 0

\* The effects of one commit: prev is the render before it, r the committed
\* render, tick and adv the pending timeouts. The timer effect runs before the
\* initial-timer effect; their state updates make the next render.
RunEffects(prev, r, tick, adv) ==
  LET timerRuns == timerEffectDeps(prev) # timerEffectDeps(r)
      initRuns == initialTimerEffectDeps(prev) # initialTimerEffectDeps(r)
      timeUp == timerRuns /\ TimerEffectTimeUp(r)
      setInitial == initRuns /\ InitialTimerEffectSets(r)
  IN [r |-> [r EXCEPT !.feedback = IF timeUp THEN "timeup" ELSE @,
                      !.timer = IF setInitial THEN getCalculatedTimer(r) ELSE @],
      tick |-> IF timerRuns THEN TimerEffectTick(r) ELSE tick,
      adv |-> IF timeUp THEN Append(adv, Closure(r, "timeup")) ELSE adv,
      timeUps |-> IF timeUp THEN 1 ELSE 0]

\* A commit and the renders its effects cause, until no effect has anything to
\* run (the second pass can only re-arm the countdown for the timer the first
\* pass set).
CommitResult(p1, p2) ==
  [r |-> p2.r, tick |-> p2.tick, adv |-> p2.adv, timeUps |-> p1.timeUps + p2.timeUps]

\* the second pass, after the first pass p1 of the effects on r
CommitSecondPass(r, p1) == CommitResult(p1, RunEffects(r, p1.r, p1.tick, p1.adv))

Commit(r, tick, adv) == CommitSecondPass(r, RunEffects(Render, r, tick, adv))

\* the next state's component state and timeouts are those of commit c
Committed(c) ==
  /\ settings' = c.r.settings
  /\ playerLevel' = c.r.playerLevel
  /\ score' = c.r.score
  /\ quiz' = c.r.quiz
  /\ selected' = c.r.selected
  /\ feedback' = c.r.feedback
  /\ timer' = c.r.timer
  /\ roundActive' = c.r.roundActive
  /\ questionsInRound' = c.r.questionsInRound
  /\ roundScore' = c.r.roundScore
  /\ tickTimeout' = c.tick
  /\ advanceTimeouts' = c.adv

Op(name, round) == [op |-> name, round |-> round]

\* ------------------------------------------------------------ Init

\* The state after the mount, with player level `level` and the base timer
\* InitBaseTimer read from the store (adaptive timing is on by default).
\* no timeout pending, nothing played yet
InitQuiescent ==
  /\ generating = <<>>
  /\ resolving = <<>>
  /\ levelMap = <<>>
  /\ tickTimeout = NoTimeout
  /\ advanceTimeouts = <<>>
  /\ feedbackTimeouts = 0
  /\ deliveredLater = 0
  /\ roundNo = 0
  /\ startScore = 0
  /\ stoppedRounds = {}
  /\ hastyAnswers = 0
  /\ resolved = 0
  /\ accepted = 0
  /\ scoreAtDelivery = 0

InitAt(level) ==
  /\ settings = [baseTimer |-> InitBaseTimer, adaptiveTiming |-> TRUE]
  /\ playerLevel = level
  /\ score = 0
  /\ quiz \in getRandomQuiz(level)
  /\ selected = NULL
  /\ feedback = NULL
  /\ timer = 5
  /\ roundActive = FALSE
  /\ questionsInRound = 0
  /\ roundScore = 0
  /\ InitQuiescent
  /\ startLevel = level
  /\ lastOp = Op("mount", 0)
  /\ localStorage = Persisted

Init == InitAt(0)

\* a player one passed round below the last level
InitTop == InitAt(MAX_LEVEL - 1)

\* ------------------------------------------------------------ operations

\* startRound without setSelected(null) (shows what C9 rests on)
startRoundKeepsSelected(r, q) ==
  [r EXCEPT !.roundActive = TRUE,
            !.questionsInRound = 0,
            !.roundScore = 0,
            !.quiz = q,
            !.feedback = NULL]

\* the state updates of startRound in render r, q the quiz getRandomQuiz returned
startRoundUpdates(r, q) ==
  [r EXCEPT !.roundActive = TRUE,
            !.questionsInRound = 0,
            !.roundScore = 0,
            !.quiz = q,
            !.selected = NULL,
            !.feedback = NULL]

\* startRound, the onClick of the button shown while no round is active
startRound ==
  /\ ~roundActive
  /\ roundNo >= 1 => deliveredLater < MaxLaterDeliveries
  /\ \E q \in getRandomQuiz(playerLevel) :
       LET c == Commit(startRoundUpdates(Render, q), tickTimeout, advanceTimeouts)
       IN /\ Committed(c)
          /\ resolved' = c.timeUps
  /\ UNCHANGED feedbackTimeouts
  /\ deliveredLater' = IF roundNo >= 1 THEN deliveredLater + 1 ELSE deliveredLater
  /\ roundNo' = roundNo + 1
  /\ startScore' = score
  /\ startLevel' = playerLevel
  /\ accepted' = 0
  /\ scoreAtDelivery' = 0
  /\ UNCHANGED <<stoppedRounds, hastyAnswers>>
  /\ lastOp' = Op("start", roundNo + 1)
  /\ UNCHANGED <<generating, resolving, levelMap, localStorage>>

\* the guard of handleSelect without `selected !== null` (shows what C6 rests on)
handleSelectIgnoresIdleOnly(r) == ~r.roundActive

\* the guard of handleSelect in render r: the event is ignored
handleSelectIgnores(r) == r.selected # NULL \/ ~r.roundActive

\* the state updates of handleSelect(option) in render r
handleSelectUpdates(r, option) ==
  LET isCorrect == option = r.quiz.correctNote
  IN [r EXCEPT !.selected = option,
               !.roundScore = IF isCorrect THEN @ + 1 ELSE @,
               !.feedback = IF isCorrect THEN "correct" ELSE "wrong"]

\* handleSelect(option), the onClick of an option button
handleSelect(option) ==
  IF handleSelectIgnores(Render)
  THEN UNCHANGED vars
  ELSE LET c == Commit(handleSelectUpdates(Render, option), tickTimeout,
                       Append(advanceTimeouts, Closure(Render, "answer")))
       IN /\ Committed(c)
          /\ UNCHANGED feedbackTimeouts
          /\ resolved' = resolved + 1 + c.timeUps
          /\ accepted' = accepted + 1
          /\ hastyAnswers' = IF advanceTimeouts # <<>> THEN hastyAnswers + 1
                             ELSE hastyAnswers
          /\ UNCHANGED <<roundHistory, deliveredLater, scoreAtDelivery>>
          /\ lastOp' = Op("answer", roundNo)
          /\ UNCHANGED <<generating, resolving, levelMap, localStorage>>

\* a click on one of the option buttons of the current question
Answer ==
  /\ (~handleSelectIgnores(Render) /\ advanceTimeouts # <<>>)
       => hastyAnswers < MaxHastyAnswers
  /\ \E option \in BagToSet(quiz.options) : handleSelect(option)

\* The countdown timeout fires: setTimer(timer - 1) with the timer it captured.
\* An advance callback fires ADVANCE_DELAY after it was scheduled, and no
\* countdown timeout is pending when one is scheduled, so at most
\* ADVANCE_DELAY \div TICK_DELAY countdown steps fit before it fires.
Tick ==
  /\ tickTimeout # NoTimeout
  /\ \A i \in 1..Len(advanceTimeouts) :
       advanceTimeouts[i].ticks < ADVANCE_DELAY \div TICK_DELAY
  /\ LET c == Commit([Render EXCEPT !.timer = tickTimeout - 1], NoTimeout,
                     [i \in 1..Len(advanceTimeouts) |->
                        [advanceTimeouts[i] EXCEPT !.ticks = @ + 1]])
     IN /\ Committed(c)
        /\ resolved' = resolved + c.timeUps
  /\ UNCHANGED feedbackTimeouts
  /\ UNCHANGED <<roundHistory, questionHistory, hastyAnswers>>
  /\ lastOp' = Op("tick", roundNo)
  /\ UNCHANGED <<generating, resolving, levelMap, localStorage>>

\* endRound of the render cl (the closure), applied to the state r it updates
endRound(cl, r) ==
  LET requiredScore == getRequiredScoreForLevel
      passed == cl.roundScore >= requiredScore
  IN [r EXCEPT !.roundActive = FALSE,
               !.feedback = IF passed /\ cl.playerLevel < MAX_LEVEL THEN "levelup"
                            ELSE IF passed THEN "maxlevel"
                            ELSE "retry",
               !.playerLevel = IF passed /\ cl.playerLevel < MAX_LEVEL THEN @ + 1 ELSE @,
               !.score = @ + cl.roundScore]

\* nextQuestionNum of the 1200 ms callback with closure cl
nextQuestionNum(cl) == cl.questionsInRound + 1

\* the callback with closure cl ends the round
advanceEnds(cl) == nextQuestionNum(cl) >= QUESTIONS_PER_ROUND

\* the state updates of the 1200 ms callback with closure cl that moves on to
\* the next question, q the quiz getRandomQuiz returned
advanceUpdates(cl, r, q) ==
  [r EXCEPT !.feedback = NULL,
            !.selected = NULL,
            !.questionsInRound = nextQuestionNum(cl),
            !.quiz = q,
            !.timer = getCalculatedTimer(cl)]

\* The oldest 1200 ms callback fires and moves on to the next question.
AdvanceNext ==
  /\ advanceTimeouts # <<>>
  /\ LET cl == Head(advanceTimeouts)
     IN /\ ~advanceEnds(cl)
        /\ roundNo > 1 => deliveredLater < MaxLaterDeliveries
        /\ \E q \in getRandomQuiz(cl.playerLevel) :
             LET c == Commit(advanceUpdates(cl, Render, q), tickTimeout,
                             Tail(advanceTimeouts))
             IN /\ Committed(c)
                /\ resolved' = resolved + c.timeUps
        /\ lastOp' = Op("advance", cl.round)
        /\ UNCHANGED <<generating, resolving, levelMap, localStorage>>
  /\ UNCHANGED feedbackTimeouts
  /\ deliveredLater' = IF roundNo > 1 THEN deliveredLater + 1 ELSE deliveredLater
  /\ accepted' = 0
  /\ scoreAtDelivery' = roundScore
  /\ UNCHANGED <<roundHistory, hastyAnswers>>

\* The oldest 1200 ms callback fires and ends the round.
AdvanceEnd ==
  /\ advanceTimeouts # <<>>
  /\ LET cl == Head(advanceTimeouts)
     IN /\ advanceEnds(cl)
        /\ LET c == Commit(endRound(cl, [Render EXCEPT !.feedback = NULL,
                                                       !.selected = NULL]),
                           tickTimeout, Tail(advanceTimeouts))
           IN /\ Committed(c)
              /\ resolved' = resolved + c.timeUps
        /\ lastOp' = Op("complete", cl.round)
        /\ UNCHANGED <<generating, resolving, levelMap>>
        /\ localStorage' = Persisted'
  /\ UNCHANGED feedbackTimeouts
  /\ UNCHANGED <<roundHistory, questionHistory, hastyAnswers>>

\* the state updates of stopRound in render r
stopRoundUpdates(r) ==
  [r EXCEPT !.roundActive = FALSE,
            !.questionsInRound = 0,
            !.roundScore = 0,
            !.feedback = "stopped"]

\* stopRound, the onClick of the button shown while a round is active
stopRound ==
  /\ roundActive
  /\ Cardinality(stoppedRounds) < MaxStops
  /\ LET c == Commit(stopRoundUpdates(Render), tickTimeout, advanceTimeouts)
     IN Committed(c)
  /\ feedbackTimeouts' = feedbackTimeouts + 1
  /\ stoppedRounds' = stoppedRounds \cup {roundNo}
  /\ resolved' = 0
  /\ accepted' = 0
  /\ scoreAtDelivery' = 0
  /\ UNCHANGED <<roundNo, startScore, startLevel, deliveredLater, hastyAnswers>>
  /\ lastOp' = Op("stop", roundNo)
  /\ UNCHANGED <<generating, resolving, levelMap, localStorage>>

\* the 2000 ms callback of stopRound fires: setFeedback(null)
ClearFeedback ==
  /\ feedbackTimeouts > 0
  /\ LET c == Commit([Render EXCEPT !.feedback = NULL], tickTimeout, advanceTimeouts)
     IN /\ Committed(c)
        /\ resolved' = resolved + c.timeUps
  /\ feedbackTimeouts' = feedbackTimeouts - 1
  /\ UNCHANGED <<roundHistory, questionHistory, hastyAnswers>>
  /\ lastOp' = Op("clear", roundNo)
  /\ UNCHANGED <<generating, resolving, levelMap, localStorage>>

Next ==
  \/ startRound
  \/ Answer
  \/ Tick
  \/ AdvanceNext
  \/ AdvanceEnd
  \/ stopRound
  \/ ClearFeedback

Spec == Init /\ [][Next]_vars

SpecTop == InitTop /\ [][Next]_vars

\* ------------------------------------------------------------ fair scheduling

\* The browser runs every timeout callback that stays scheduled: the countdown
\* timeout unless the effect's cleanup clears it, the 1200 ms callbacks always
\* (nothing clears them). The player's clicks are under no such obligation.

\* the countdown timeout is pending and due before every pending 1200 ms callback
TickReady ==
  /\ tickTimeout # NoTimeout
  /\ \A i \in 1..Len(advanceTimeouts) :
       advanceTimeouts[i].ticks < ADVANCE_DELAY \div TICK_DELAY

\* the oldest 1200 ms callback is one that moves on to the next question
AdvanceNextReady ==
  /\ advanceTimeouts # <<>>
  /\ ~advanceEnds(Head(advanceTimeouts))
  /\ roundNo > 1 => deliveredLater < MaxLaterDeliveries

\* the oldest 1200 ms callback is one that ends the round
AdvanceEndReady ==
  /\ advanceTimeouts # <<>>
  /\ advanceEnds(Head(advanceTimeouts))

\* the steps Tick, AdvanceNext and AdvanceEnd, told by their guard and by what
\* they always change
TickFires ==
  /\ TickReady
  /\ lastOp' = Op("tick", roundNo)
  /\ timer' = tickTimeout - 1

AdvanceNextFires ==
  /\ AdvanceNextReady
  /\ lastOp' = Op("advance", Head(advanceTimeouts).round)
  /\ advanceTimeouts' = Tail(advanceTimeouts)

AdvanceEndFires ==
  /\ AdvanceEndReady
  /\ lastOp' = Op("complete", Head(advanceTimeouts).round)
  /\ advanceTimeouts' = Tail(advanceTimeouts)

SpecFair ==
  /\ Init
  /\ [][Next]_vars
  /\ WF_<<lastOp, timer>>(TickFires)
  /\ WF_<<lastOp, advanceTimeouts>>(AdvanceNextFires)
  /\ WF_<<lastOp, advanceTimeouts>>(AdvanceEndFires)

\* ------------------------------------------------------------ answers while callbacks are pending

MaxPendingAnswers == 3

\* a click on one of the option buttons of the current question; up to
\* MaxPendingAnswers clicks are accepted while a 1200 ms callback is pending
AnswerWhilePending ==
  /\ (~handleSelectIgnores(Render) /\ advanceTimeouts # <<>>)
       => hastyAnswers < MaxPendingAnswers
  /\ \E option \in BagToSet(quiz.options) : handleSelect(option)

\* rounds that are played to their end, never stopped
NextHasty ==
  \/ startRound
  \/ AnswerWhilePending
  \/ Tick
  \/ AdvanceNext
  \/ AdvanceEnd

SpecHasty == Init /\ [][NextHasty]_vars

\* ------------------------------------------------------------ AdaptiveTimer alone

\* getCalculatedTimer applied to every setting of the slider and of the
\* adaptive-timing switch and to every in-round count c of correct answers among
\* q resolved questions.
InitTimer ==
  /\ \E baseTimer \in BaseTimers, adaptiveTiming \in BOOLEAN :
       settings = [baseTimer |-> baseTimer, adaptiveTiming |-> adaptiveTiming]
  /\ \E q \in 0..QUESTIONS_PER_ROUND : \E c \in 0..q :
       /\ questionsInRound = q
       /\ roundScore = c
  /\ roundActive = TRUE
  /\ playerLevel = 0
  /\ score = 0
  /\ quiz \in getRandomQuiz(0)
  /\ selected = NULL
  /\ feedback = NULL
  /\ timer = 5
  /\ InitQuiescent
  /\ startLevel = 0
  /\ lastOp = Op("mount", 0)
  /\ localStorage = Persisted

\* setTimer(getCalculatedTimer())
ComputeTimer ==
  /\ timer' = getCalculatedTimer(Render)
  /\ lastOp' = Op("timer", 0)
  /\ UNCHANGED <<generating, resolving, levelMap, localStorage>>
  /\ UNCHANGED <<settings, playerLevel, score, quiz, selected, feedback,
                 roundActive, questionsInRound, roundScore>>
  /\ UNCHANGED timeoutVars
  /\ UNCHANGED <<roundHistory, questionHistory, hastyAnswers, resolved>>

SpecTimer == InitTimer /\ [][ComputeTimer]_vars

\* ------------------------------------------------------------ QuizGenerator alone

\* how many levels below 0 and above MAX_LEVEL a quiz is generated for
MaxLevelsBeyond == 3

\* the levels a quiz is generated for: those of the game, some below and above
GenLevels == (0 - MaxLevelsBeyond)..(MAX_LEVEL + MaxLevelsBeyond)

\* The quiz on display has no part in generating the next one: one of those the
\* mount can leave is taken per level.
InitGen ==
  \E level \in GenLevels :
    /\ InitAt(level)
    /\ quiz = CHOOSE q \in getRandomQuiz(level) : TRUE

\* setQuiz(getRandomQuiz(playerLevel)) with every outcome of the random source
Generate ==
  /\ lastOp.op = "mount"
  /\ quiz' \in RandomQuiz(playerLevel, FullRand)
  /\ lastOp' = Op("generate", 0)
  /\ UNCHANGED <<generating, resolving, levelMap, localStorage>>
  /\ UNCHANGED <<settings, playerLevel, score, selected, feedback, timer,
                 roundActive, questionsInRound, roundScore>>
  /\ UNCHANGED timeoutVars
  /\ UNCHANGED <<roundHistory, questionHistory, hastyAnswers, resolved>>

SpecGen == InitGen /\ [][Generate]_vars

\* ------------------------------------------------------------ the option loop, draw by draw

\* getRandomQuiz(playerLevel) is called: the position is drawn, the correct note
\* resolved and the option list started with it.
BeginQuiz ==
  /\ generating = <<>>
  /\ lastOp.op = "mount"
  /\ LET constraints == getLevelConstraints(playerLevel)
         stringRange == 5 - constraints.minString + 1
     IN \E s \in RandomInt(stringRange, FullRand),
           fretIdx \in RandomInt(constraints.maxFret + 1, FullRand) :
          LET stringIdx == constraints.minString + s
              correctNote == getNoteName(STRINGS[stringIdx + 1], fretIdx)
          IN generating' = <<[stringIdx |-> stringIdx, fretIdx |-> fretIdx,
                              correctNote |-> correctNote,
                              options |-> <<correctNote>>, draws |-> 0]>>
  /\ lastOp' = Op("call", 0)
  /\ UNCHANGED <<appVars, timeoutVars>>
  /\ UNCHANGED <<roundHistory, questionHistory, hastyAnswers, resolved>>
  /\ UNCHANGED <<resolving, levelMap, localStorage>>

\* one pass of while (options.length < 3)
DrawOption ==
  /\ generating # <<>>
  /\ Len(generating[1].options) < 3
  /\ generating[1].draws < MaxLoopDraws
  /\ \E r \in RandomInt(12, FullRand) :
       generating' = <<[generating[1] EXCEPT
                          !.options = OptionStep(@, NOTE_NAMES[r + 1]),
                          !.draws = @ + 1]>>
  /\ lastOp' = Op("draw", 0)
  /\ UNCHANGED <<appVars, timeoutVars>>
  /\ UNCHANGED <<roundHistory, questionHistory, hastyAnswers, resolved>>
  /\ UNCHANGED <<resolving, levelMap, localStorage>>

\* the loop has ended: the options are shuffled and the quiz returned
ReturnQuiz ==
  /\ generating # <<>>
  /\ Len(generating[1].options) >= 3
  /\ quiz' = [stringIdx |-> generating[1].stringIdx,
              fretIdx |-> generating[1].fretIdx,
              correctNote |-> generating[1].correctNote,
              options |-> Shuffle(generating[1].options)]
  /\ generating' = <<>>
  /\ lastOp' = Op("return", 0)
  /\ UNCHANGED <<settings, playerLevel, score, selected, feedback, timer,
                 roundActive, questionsInRound, roundScore>>
  /\ UNCHANGED timeoutVars
  /\ UNCHANGED <<roundHistory, questionHistory, hastyAnswers, resolved>>
  /\ UNCHANGED <<resolving, levelMap, localStorage>>

NextLoop ==
  \/ BeginQuiz
  \/ DrawOption
  \/ ReturnQuiz

SpecLoop == Init /\ [][NextLoop]_vars

\* ------------------------------------------------------------ startup

\* texts found under the player level and the score key: none, numerals, a
\* negative numeral, text that is no numeral, a numeral followed by other text
StoredTexts ==
  {Missing, <<"0">>, <<"7">>, <<"2", "6">>, <<"-", "3">>, <<"a", "b", "c">>,
   <<"1", "2", "a">>, <<"N", "a", "N">>}

\* the settings item: missing, no JSON, JSON of some or of all fields
StoredSettings ==
  {[kind |-> "missing", fields |-> {}, object |-> getDefaultSettings],
   [kind |-> "corrupt", fields |-> {}, object |-> getDefaultSettings],
   [kind |-> "object", fields |-> {"baseTimer"},
    object |-> [baseTimer |-> 3, adaptiveTiming |-> TRUE]],
   [kind |-> "object", fields |-> {"baseTimer", "adaptiveTiming"},
    object |-> [baseTimer |-> 8, adaptiveTiming |-> FALSE]]}

\* the date item: missing, today's date, another day's
StoredDates == {"missing", "today", "other"}

\* the page is loaded with some content of localStorage; nothing is constructed yet
InitStartup ==
  /\ localStorage \in [settings : StoredSettings, level : StoredTexts,
                       score : StoredTexts, date : StoredDates]
  /\ settings = getDefaultSettings
  /\ playerLevel = 0
  /\ score = 0
  /\ quiz \in getRandomQuiz(0)
  /\ selected = NULL
  /\ feedback = NULL
  /\ timer = 5
  /\ roundActive = FALSE
  /\ questionsInRound = 0
  /\ roundScore = 0
  /\ InitQuiescent
  /\ startLevel = 0
  /\ lastOp = Op("load", 0)

\* The first render and its effects: the useState initializers read
\* localStorage, the mount effect resets the score of another day, the persist
\* effects write the state back.
Mount ==
  /\ lastOp.op = "load"
  /\ settings' = loadSettings(localStorage.settings)
  /\ playerLevel' = loadPlayerLevel(localStorage.level)
  /\ score' = IF localStorage.date # "today" THEN 0
              ELSE loadScore(localStorage.date, localStorage.score)
  /\ quiz' \in getRandomQuiz(loadPlayerLevel(localStorage.level))
  /\ selected' = NULL
  /\ feedback' = NULL
  /\ timer' = 5
  /\ roundActive' = FALSE
  /\ questionsInRound' = 0
  /\ roundScore' = 0
  /\ localStorage' = Persisted'
  /\ startLevel' = playerLevel'
  /\ lastOp' = Op("mount", 0)
  /\ UNCHANGED timeoutVars
  /\ UNCHANGED <<roundNo, startScore, stoppedRounds, questionHistory, hastyAnswers,
                 resolved, generating, resolving, levelMap>>

SpecStartup == InitStartup /\ [][Mount]_vars

\* ------------------------------------------------------------ NoteMath alone

MaxFretArg == 25

\* getNoteName called with any note of NOTE_NAMES as the open note and any fret
\* of 0..MaxFretArg
ResolveNote ==
  /\ \E openNote \in Range(NOTE_NAMES), fret \in 0..MaxFretArg :
       resolving' = <<[openNote |-> openNote, fret |-> fret,
                       note |-> getNoteName(openNote, fret)]>>
  /\ lastOp' = Op("resolve", 0)
  /\ UNCHANGED <<appVars, timeoutVars, roundHistory, questionHistory, hastyAnswers,
                 resolved, generating, levelMap, localStorage>>

SpecNote == Init /\ [][ResolveNote]_vars

\* ------------------------------------------------------------ LevelMap

\* texts.join(',')
RECURSIVE Join(_)
Join(texts) ==
  IF texts = <<>> THEN <<>>
  ELSE IF Len(texts) = 1 THEN texts[1]
  ELSE texts[1] \o <<",">> \o Join(Tail(texts))

\* text.split(',')
RECURSIVE Split(_)
Split(text) ==
  LET commas == {i \in 1..Len(text) : text[i] = ","}
  IN IF commas = {} THEN <<text>>
     ELSE <<SubSeq(text, 1, SetMin(commas) - 1)>>
            \o Split(SubSeq(text, SetMin(commas) + 1, Len(text)))

RECURSIVE TrimEnd(_)
TrimEnd(text) ==
  IF text # <<>> /\ text[Len(text)] = " "
  THEN TrimEnd(SubSeq(text, 1, Len(text) - 1))
  ELSE text

\* text.trim()
Trim(text) == TrimEnd(TrimStart(text))

\* the completed-levels attribute: the levels 1..currentLevel
completedLevels(currentLevel) ==
  IF currentLevel > 0
  THEN Join([i \in 1..currentLevel |-> toString(i)])
  ELSE <<>>

\* for (let i = first; i <= maxLevel + 1; i += 4) repetitionLevels.push(i)
RECURSIVE repetitionLevelsFrom(_, _)
repetitionLevelsFrom(i, maxLevel) ==
  IF i <= maxLevel + 1
  THEN <<i>> \o repetitionLevelsFrom(i + 4, maxLevel)
  ELSE <<>>

repetitionLevels(maxLevel) == repetitionLevelsFrom(4, maxLevel)

\* the repetition-levels attribute
repetitionLevelsAttribute(levels) ==
  Join([i \in 1..Len(levels) |-> toString(levels[i])])

\* value ? value.split(',').map(n => parseInt(n.trim())) : []
parseLevels(value) ==
  IF value = <<>> THEN <<>>
  ELSE [i \in 1..Len(Split(value)) |-> parseInt(Trim(Split(value)[i]))]

\* parseInt(value) || fallback
parseIntOr(value, fallback) ==
  IF parseInt(value) \in {NaN, 0} THEN fallback ELSE parseInt(value)

\* the configuration of the element after its attributes were set
updateConfig(currentLevel, maxLevel) ==
  [levels |-> parseIntOr(toString(maxLevel + 1), 10),
   currentLevel |-> parseIntOr(toString(currentLevel + 1), 1),
   completedLevels |-> parseLevels(completedLevels(currentLevel)),
   repetitionLevels |-> parseLevels(repetitionLevelsAttribute(repetitionLevels(maxLevel)))]

getMarkerState(config, level) ==
  LET isRepetition == level \in Range(config.repetitionLevels)
  IN IF level \in Range(config.completedLevels)
     THEN (IF isRepetition THEN "repetition-completed" ELSE "completed")
     ELSE IF level = config.currentLevel
     THEN (IF isRepetition THEN "repetition-current" ELSE "current")
     ELSE IF level < config.currentLevel
     THEN (IF isRepetition THEN "repetition-completed" ELSE "completed")
     ELSE (IF isRepetition THEN "repetition-locked" ELSE "locked")

\* App renders <LevelMap currentLevel={playerLevel} maxLevel={MAX_LEVEL}/>; the
\* effect of LevelMap creates the element and sets its attributes
MountLevelMap ==
  /\ levelMap = <<>>
  /\ levelMap' = <<[config |-> updateConfig(playerLevel, MAX_LEVEL), markers |-> <<>>]>>
  /\ lastOp' = Op("map", 0)
  /\ UNCHANGED <<appVars, timeoutVars, roundHistory, questionHistory, hastyAnswers,
                 resolved, generating, resolving, localStorage>>

\* render() of the element draws the marker of the next level of 1..levels
DrawMarker ==
  /\ levelMap # <<>>
  /\ Len(levelMap[1].markers) < levelMap[1].config.levels
  /\ levelMap' = <<[levelMap[1] EXCEPT
                      !.markers = Append(@, getMarkerState(levelMap[1].config, Len(@) + 1))]>>
  /\ lastOp' = Op("marker", 0)
  /\ UNCHANGED <<appVars, timeoutVars, roundHistory, questionHistory, hastyAnswers,
                 resolved, generating, resolving, localStorage>>

\* the map of a player at any level of 0..MAX_LEVEL
InitMap ==
  \E level \in 0..MAX_LEVEL :
    /\ InitAt(level)
    /\ quiz = CHOOSE q \in getRandomQuiz(level) : TRUE

SpecMap == InitMap /\ [][MountLevelMap \/ DrawMarker]_vars

\* ------------------------------------------------------------ properties

\* the completion verdict shown by endRound is a pass
Passed == feedback \in {"levelup", "maxlevel"}

\* the latest round was not stopped and a callback it scheduled has just ended it
RoundCompleted == lastOp.op = "complete" /\ lastOp.round = roundNo /\ ~stopped

\* the quiz position lies in the envelope of `level`
InEnvelope(q, level) ==
  LET constraints == getLevelConstraints(level)
  IN /\ constraints.minString <= q.stringIdx /\ q.stringIdx <= 5
     /\ 0 <= q.fretIdx /\ q.fretIdx <= constraints.maxFret

\* the pending 1200 ms callbacks
PendingAdvances == {advanceTimeouts[i] : i \in 1..Len(advanceTimeouts)}

\* an answer event: a click on an option of the current quiz reaches handleSelect
AnswerEvent == \E option \in BagToSet(quiz.options) : handleSelect(option)

\* C1: when a round that was not stopped completes after exactly 15
\* resolutions (answers or time-ups), the verdict is a pass if and only if the
\* number of correct answers of the round (roundScore, which counts every
\* correct answer since startRound, the fifteenth included) is at least 12.
C1_PassIffTwelveCorrect ==
  (RoundCompleted /\ resolved = QUESTIONS_PER_ROUND)
    => (Passed <=> roundScore >= getRequiredScoreForLevel)

\* C2: when a round completes, the lifetime score equals the score at the
\* start of the round plus the number of correct answers of the round.
C2_ScoreGainsCorrectCount ==
  RoundCompleted => score = startScore + roundScore

\* C3: the player level never exceeds MAX_LEVEL.
C3_LevelAtMostMax == playerLevel <= MAX_LEVEL

\* C4: from a stopRound until the next startRound, the lifetime score and the
\* player level equal their values at the start of the stopped round.
C4_StopKeepsScoreAndLevel ==
  stopped => (score = startScore /\ playerLevel = startLevel)

\* C5: a callback scheduled during a stopped round that fires while a later
\* round is active changes none of that round's questionsInRound, roundScore,
\* quiz, timer and roundActive.
C5_NoStaleCallbackInNextRound ==
  [][(/\ roundActive
      /\ lastOp'.op \in {"advance", "complete"}
      /\ lastOp'.round \in stoppedRounds
      /\ lastOp'.round < roundNo)
       => UNCHANGED <<questionsInRound, roundScore, quiz, timer, roundActive>>]_vars

\* C6: at most one answer is accepted per delivered question, roundScore grows
\* by at most 1 between two deliveries, and an answer event after the first
\* accepted answer of a question changes no state of the component and
\* schedules nothing.
C6_OneAnswerPerQuestion ==
  /\ [](accepted <= 1 /\ roundScore <= scoreAtDelivery + 1)
  /\ [][(accepted >= 1 /\ AnswerEvent) => UNCHANGED <<appVars, timeoutVars>>]_vars

\* C6 witness: an active round whose current question has its accepted answer,
\* its callback pending, so every further answer event falls on that question
C6_AnsweredQuestion ==
  /\ roundActive
  /\ lastOp.op = "answer"
  /\ accepted = 1
  /\ selected # NULL
  /\ roundScore = scoreAtDelivery + 1
  /\ advanceTimeouts # <<>>

\* C7: while the callback of a time-up of the running round is pending (it
\* has neither delivered the next question nor completed the round), roundScore
\* equals roundScore at the moment the countdown reached 0.
C7_TimeUpIsAMiss ==
  \A cl \in PendingAdvances :
    (cl.kind = "timeup" /\ cl.round = roundNo /\ ~stopped)
      => roundScore = cl.roundScore

\* C8: in a round that was not stopped, once every scheduled callback has
\* fired, questionsInRound equals the number of resolutions of the round, and
\* the round completes with exactly 15 resolutions.
C8_OneStepPerResolution ==
  (~stopped /\ roundNo >= 1 /\ advanceTimeouts = <<>>)
    => /\ roundActive => questionsInRound = resolved
       /\ RoundCompleted => resolved = QUESTIONS_PER_ROUND

\* C9: right after startRound the round is active, questionsInRound and
\* roundScore are 0, nothing is selected, and the position of the delivered
\* quiz lies in the envelope of the current player level.
C9_StartResetsRound ==
  lastOp.op = "start"
    => /\ roundActive
       /\ questionsInRound = 0
       /\ roundScore = 0
       /\ selected = NULL
       /\ InEnvelope(quiz, playerLevel)

\* C9 witness: a round started after a completed round that raised the level
C9_StartAfterLevelUp ==
  /\ lastOp.op = "start"
  /\ roundNo >= 2
  /\ stoppedRounds = {}
  /\ playerLevel = startLevel
  /\ playerLevel > 0

\* C10: while no round is active no countdown timeout is pending, and an
\* answer event or a countdown step changes none of roundScore,
\* questionsInRound, timer, score and playerLevel.
C10_IdleIgnoresAnswerAndTick ==
  /\ [](~roundActive => tickTimeout = NoTimeout)
  /\ [][(~roundActive /\ (AnswerEvent \/ Tick))
          => UNCHANGED <<roundScore, questionsInRound, timer, score, playerLevel>>]_vars

\* C10 witness: a round has just completed with the countdown above 0 and
\* nothing selected: only the roundActive check stands between the state and an
\* answer event or a countdown step
C10_IdleAfterCompletion ==
  /\ ~roundActive
  /\ lastOp.op = "complete"
  /\ timer > 0
  /\ selected = NULL

\* C11: with adaptive timing, right after a callback of the running round has
\* delivered the next question, the countdown is the adaptive time computed from
\* the roundScore and questionsInRound that hold at that delivery.
C11_AdvanceTimerCountsResolved ==
  (/\ lastOp.op = "advance"
   /\ lastOp.round = roundNo
   /\ ~stopped
   /\ roundActive
   /\ settings.adaptiveTiming)
    => timer = getCalculatedTimer(Render)

\* C12: with adaptive timing, right after startRound the countdown of the first
\* question is the adaptive time computed from score / (score + 10), the ratio
\* getCalculatedTimer uses while no round is active.
C12_FirstTimerFromLifetimeScore ==
  (lastOp.op = "start" /\ settings.adaptiveTiming)
    => timer = getCalculatedTimer([Render EXCEPT !.roundActive = FALSE])

\* num / den rounded to the nearest integer, a half rounded up
RoundDiv(num, den) == (2 * num + den) \div (2 * den)

\* round(base * clamp(2.0 - 1.3 * c / q, 0.7, 2.0)) in exact arithmetic, the
\* multiplier kept in tenths over q; base itself when timing is not adaptive
computeSeconds(base, adaptive, c, q) ==
  IF ~adaptive THEN base
  ELSE RoundDiv(base * Max(7 * Max(q, 1), Min(20 * Max(q, 1), (20 * Max(q, 1)) - (13 * c))),
                10 * Max(q, 1))

\* C13: for every base timer of 2..10 and every accuracy c / q with
\* 0 <= c <= q <= 15, getCalculatedTimer returns the base timer when timing is
\* not adaptive and round(base * clamp(2.0 - 1.3 * c / q, 0.7, 2.0)) when it is.
C13_SecondsMatchFormula ==
  lastOp.op = "timer"
    => timer = computeSeconds(settings.baseTimer, settings.adaptiveTiming,
                              roundScore, questionsInRound)

Generated == lastOp.op = "generate"

\* C14: for every level of 0..MAX_LEVEL a generated question has exactly three
\* options, pairwise distinct, and the correct answer is one of them.
C14_ThreeDistinctOptionsWithAnswer ==
  (Generated /\ playerLevel \in 0..MAX_LEVEL)
    => /\ BagCardinality(quiz.options) = 3
       /\ Cardinality(BagToSet(quiz.options)) = 3
       /\ quiz.correctNote \in BagToSet(quiz.options)

\* a question of the last level whose wrong options are the two notes next to
\* the correct one
C14_GeneratedAtMaxLevel ==
  /\ Generated
  /\ playerLevel = MAX_LEVEL
  /\ quiz.correctNote = "C"
  /\ BagToSet(quiz.options) = {"B", "C", "C#"}

\* semitones above C of the open strings, first string to sixth: E B G D A E
OpenStringPitch == <<4, 11, 7, 2, 9, 4>>

\* the note `fretIdx` semitones above the open string
NoteAt(stringIdx, fretIdx) ==
  NOTE_NAMES[((OpenStringPitch[stringIdx + 1] + fretIdx) % 12) + 1]

\* the positions getRandomQuiz can return for a level
GeneratedPositions(level) ==
  {<<q.stringIdx, q.fretIdx>> : q \in RandomQuiz(level, FullRand)}

\* C15: for every level of 0..MAX_LEVEL a generated question lies on a string of
\* minString..5 and a fret of 0..maxFret of the level's envelope, every such
\* position can be generated, and the correct answer is the note of the
\* position.
C15_PositionInEnvelopeAndNoteResolved ==
  playerLevel \in 0..MAX_LEVEL
    => /\ Generated
            => /\ InEnvelope(quiz, playerLevel)
               /\ quiz.correctNote = NoteAt(quiz.stringIdx, quiz.fretIdx)
       /\ ~Generated
            => (getLevelConstraints(playerLevel).minString..5)
                  \X (0..getLevelConstraints(playerLevel).maxFret)
                 \subseteq GeneratedPositions(playerLevel)

\* a question of the last level at the far corner of its envelope, where the
\* note wraps around the octave
C15_GeneratedAtEnvelopeCorner ==
  /\ Generated
  /\ playerLevel = MAX_LEVEL
  /\ quiz.stringIdx = 0
  /\ quiz.fretIdx = FRETS - 1
  /\ quiz.correctNote = "D#"

\* C16: the option loop of a quiz generation makes at most 100 draws (after
\* which generation is to fail with GenerationError and the round to be
\* aborted).
C16_OptionDrawsCapped ==
  \A i \in 1..Len(generating) : generating[i].draws <= 100

\* C17: a negative level is rejected (InvalidLevelError): no envelope is
\* computed for it, so no question is generated from one.
C17_NegativeLevelRejected ==
  playerLevel < 0 => ~Generated

\* C18: after startup the player level and the score are non-negative integers,
\* whatever was found in localStorage (missing, unreadable or unparseable values
\* being replaced by the defaults).
C18_StartupLevelAndScoreNatural ==
  lastOp.op = "mount" => (playerLevel \in Nat /\ score \in Nat)

\* the levels 2, 5, 8, ... up to the highest level a quiz is generated for
EveryThirdFromTwo == {(3 * k) + 2 : k \in 0..((MAX_LEVEL + MaxLevelsBeyond) \div 3)}

\* C19: a level is a repetition level exactly if it is one of 2, 5, 8, ..., 26,
\* ...: it is positive and its successor is a multiple of 3.
C19_RepetitionEveryThirdFromTwo ==
  isRepetitionLevel(playerLevel) <=> playerLevel \in EveryThirdFromTwo

\* a question generated at level 2, on the fret that only the repeated level 1
\* offers
C19_GeneratedAtFirstRepetition ==
  /\ Generated
  /\ playerLevel = 2
  /\ quiz.fretIdx = 2

\* C20: a repetition level L covers the levels L - 2 and L - 1, both regular,
\* and its envelope is the lowest minString and the highest maxFret of the two;
\* any other level covers itself alone.
C20_RepetitionCoversTwoRegularLevels ==
  LET L == playerLevel
      range == getRepetitionLevelRange(L)
      c1 == getLevelConstraints(L - 2)
      c2 == getLevelConstraints(L - 1)
  IN IF L \in EveryThirdFromTwo
     THEN /\ range = [start |-> L - 2, end |-> L - 1]
          /\ (L - 2) \notin EveryThirdFromTwo /\ ~isRepetitionLevel(L - 2)
          /\ (L - 1) \notin EveryThirdFromTwo /\ ~isRepetitionLevel(L - 1)
          /\ getLevelConstraints(L) =
               [minString |-> Min(c1.minString, c2.minString),
                maxFret |-> Max(c1.maxFret, c2.maxFret)]
     ELSE range = [start |-> L, end |-> L]

\* a question generated at level 5 in the corner of the envelope of the levels 3
\* and 4 together
C20_GeneratedAtSecondRepetition ==
  /\ Generated
  /\ playerLevel = 5
  /\ quiz.stringIdx = 4
  /\ quiz.fretIdx = 3

\* the regular levels below MAX_LEVEL
RegularLevels == {L \in 0..(MAX_LEVEL - 1) : L \notin EveryThirdFromTwo}

\* C21: for any two regular levels L1 < L2 of 0..MAX_LEVEL-1 the envelope of L2
\* has a maxFret at least that of L1 and a minString at most that of L1.
C21_EnvelopeWidensOverRegularLevels ==
  playerLevel \in RegularLevels
    => \A L1 \in RegularLevels :
         L1 < playerLevel
           => /\ getLevelConstraints(L1).maxFret
                   <= getLevelConstraints(playerLevel).maxFret
              /\ getLevelConstraints(L1).minString
                   >= getLevelConstraints(playerLevel).minString

\* a question generated at the regular level 21 on the fret and the string that
\* no regular level below it offers together
C21_GeneratedAtWiderRegularLevel ==
  /\ Generated
  /\ playerLevel = 21
  /\ playerLevel \in RegularLevels
  /\ quiz.fretIdx = 10
  /\ quiz.stringIdx = 0

\* C22: for every level L >= 0, regular or repetition, the envelope has
\* 0 <= minString <= 5 and 0 <= maxFret <= 11, and so has every generated
\* position.
C22_EnvelopeWithinFretboard ==
  playerLevel >= 0
    => /\ getLevelConstraints(playerLevel).minString \in 0..5
       /\ getLevelConstraints(playerLevel).maxFret \in 0..11
       /\ Generated => (quiz.stringIdx \in 0..5 /\ quiz.fretIdx \in 0..11)

\* a question generated beyond the last level on the last fret of the first
\* string
C22_GeneratedAtLastFretBeyondMaxLevel ==
  /\ Generated
  /\ playerLevel = MAX_LEVEL + MaxLevelsBeyond
  /\ isRepetitionLevel(playerLevel)
  /\ quiz.stringIdx = 0
  /\ quiz.fretIdx = 11

\* the number of regular levels below a level
RegularLevelsBelow(level) ==
  Cardinality({L \in 0..(level - 1) : L \notin EveryThirdFromTwo})

\* the levels that get the whole fretboard: those from MAX_LEVEL on and the
\* regular levels that have at least 15 regular levels below them
BroadestLevels ==
  {L \in 0..(MAX_LEVEL + MaxLevelsBeyond) :
     \/ L >= MAX_LEVEL
     \/ L \notin EveryThirdFromTwo /\ RegularLevelsBelow(L) >= 15}

\* C23: every level from MAX_LEVEL on, regular or repetition, and every regular
\* level of progression index 15 or more has the envelope
\* {minString 0, maxFret FRETS - 1}.
C23_BroadestEnvelopeFromMaxLevel ==
  playerLevel \in BroadestLevels
    => getLevelConstraints(playerLevel) = [minString |-> 0, maxFret |-> 11]

\* a question generated at the regular level 22 (progression index 15) on the
\* last fret of the first string
C23_GeneratedAtProgressionIndex15 ==
  /\ Generated
  /\ playerLevel = 22
  /\ RegularLevelsBelow(playerLevel) = 15
  /\ quiz.stringIdx = 0
  /\ quiz.fretIdx = 11

\* the pitch class one semitone above each pitch class
SemitoneAbove ==
  [n \in Range(NOTE_NAMES) |->
     CASE n = "C" -> "C#" [] n = "C#" -> "D" [] n = "D" -> "D#" [] n = "D#" -> "E"
       [] n = "E" -> "F" [] n = "F" -> "F#" [] n = "F#" -> "G" [] n = "G" -> "G#"
       [] n = "G#" -> "A" [] n = "A" -> "A#" [] n = "A#" -> "B" [] n = "B" -> "C"]

\* the pitch class `fret` semitones above a pitch class
RECURSIVE SemitonesAbove(_, _)
SemitonesAbove(n, fret) ==
  IF fret = 0 THEN n ELSE SemitoneAbove[SemitonesAbove(n, fret - 1)]

\* C24: for every open note of the cycle and every fret >= 0 getNoteName returns
\* the pitch class `fret` semitones above the open note, so twelve frets higher
\* it returns the same note; ('E',0) = 'E', ('E',1) = 'F', ('A',3) = 'C',
\* ('B',1) = 'C'.
C24_NoteIsFretSemitonesAboveOpenNote ==
  \A i \in 1..Len(resolving) :
    LET c == resolving[i]
    IN /\ c.note = SemitonesAbove(c.openNote, c.fret)
       /\ c.fret >= 12 => c.note = SemitonesAbove(c.openNote, c.fret - 12)
       /\ (c.openNote = "E" /\ c.fret = 0) => c.note = "E"
       /\ (c.openNote = "E" /\ c.fret = 1) => c.note = "F"
       /\ (c.openNote = "A" /\ c.fret = 3) => c.note = "C"
       /\ (c.openNote = "B" /\ c.fret = 1) => c.note = "C"

\* the third fret of the A string an octave higher resolves to C
C24_ResolvedAnOctaveHigher ==
  resolving = <<[openNote |-> "A", fret |-> 15, note |-> "C"]>>

\* C25: while a round awaits an answer each countdown step lowers the timer by
\* exactly 1; no countdown step is taken, and none is pending, while an answer
\* is selected; the timer is never negative.
C25_TickDecrementsOnlyWhileAwaiting ==
  /\ [](timer >= 0)
  /\ [](selected # NULL => tickTimeout = NoTimeout)
  /\ [][Tick => /\ roundActive /\ selected = NULL
                /\ timer > 0
                /\ timer' = timer - 1]_vars

\* the countdown of a question of the running round has just stepped down to 0
\* with no answer selected
C25_CountedDownToZero ==
  /\ lastOp.op = "tick"
  /\ roundActive
  /\ selected = NULL
  /\ timer = 0
  /\ questionsInRound > 0

\* the 1-based levels the difficulty model takes for repetition levels
RepetitionLevelsOfModel == {L + 1 : L \in {L \in 0..MAX_LEVEL : isRepetitionLevel(L)}}

\* C26: the repetition levels handed to the level-map element are exactly the
\* levels L + 1 with 0 <= L <= MAX_LEVEL and isRepetitionLevel(L), and a marker
\* is drawn as a repetition marker exactly for those levels.
C26_MapRepetitionLevelsAgree ==
  \A i \in 1..Len(levelMap) :
    /\ Range(levelMap[i].config.repetitionLevels) = RepetitionLevelsOfModel
    /\ \A level \in 1..Len(levelMap[i].markers) :
         levelMap[i].markers[level]
             \in {"repetition-completed", "repetition-current", "repetition-locked"}
           <=> level \in RepetitionLevelsOfModel

\* C27: between one startRound and the next the round is completed at most
\* once: no callback ends a round that was not stopped and has ended already,
\* and the player level is at most one above the level the round started at.
C27_RoundCompletesAtMostOnce ==
  /\ [][AdvanceEnd => (roundActive \/ stopped)]_vars
  /\ [](playerLevel <= startLevel + 1)

\* the step schedules the callback of a time-up
TimeUpScheduled ==
  /\ advanceTimeouts' # <<>>
  /\ advanceTimeouts'[Len(advanceTimeouts')].kind = "timeup"
  /\ advanceTimeouts'[Len(advanceTimeouts')].ticks = 0
  /\ \/ Len(advanceTimeouts') > Len(advanceTimeouts)
     \/ /\ Len(advanceTimeouts') = Len(advanceTimeouts)
        /\ lastOp'.op \in {"advance", "complete"}

\* C28: a question is resolved by time-up only in a countdown step that takes
\* its timer from 1 to 0; in particular the first question of a round is not
\* timed out by startRound itself, whatever the round before left behind.
C28_TimeUpOnlyAfterCountdown ==
  /\ [][TimeUpScheduled => (Tick /\ timer = 1 /\ timer' = 0)]_vars
  /\ [](lastOp.op = "start" => feedback # "timeup")

\* the step replaces the question or restarts the countdown of a running round
QuestionReplaced ==
  /\ roundActive
  /\ roundActive'
  /\ \/ lastOp'.op = "advance"
     \/ quiz' # quiz
     \/ timer' > timer

\* the step is the callback scheduled by the resolution (an accepted answer or
\* the time-up) of the question on display
CurrentQuestionAdvances ==
  /\ lastOp'.op = "advance"
  /\ advanceTimeouts # <<>>
  /\ Head(advanceTimeouts).round = roundNo
  /\ Head(advanceTimeouts).questionsInRound = questionsInRound
  /\ (selected # NULL \/ timer = 0)

\* C29: in an active round the question on display and its countdown are
\* replaced only by the callback its own resolution scheduled: no callback of an
\* earlier question swaps the question or resets the countdown.
C29_QuestionKeptUntilResolved ==
  [][QuestionReplaced => CurrentQuestionAdvances]_vars

\* C30: questionsInRound and roundScore stay in 0..QUESTIONS_PER_ROUND, and
\* while a round is active roundScore is at most the number of questions
\* delivered so far, questionsInRound + 1.
C30_CountersWithinRound ==
  /\ questionsInRound \in 0..QUESTIONS_PER_ROUND
  /\ roundScore \in 0..QUESTIONS_PER_ROUND
  /\ roundActive => roundScore <= questionsInRound + 1

\* C32: the envelope of a repetition level L of 2..MAX_LEVEL is the envelope of
\* the level L - 1, so every question generated at L lies in the envelope of
\* L - 1.
C32_RepetitionEnvelopeIsThatOfPreviousLevel ==
  (playerLevel \in EveryThirdFromTwo /\ playerLevel \in 2..MAX_LEVEL)
    => /\ isRepetitionLevel(playerLevel)
       /\ getLevelConstraints(playerLevel) = getLevelConstraints(playerLevel - 1)
       /\ Generated => InEnvelope(quiz, playerLevel - 1)

\* a question generated at the repetition level 8 in the corner of the envelope
\* of level 7, a string that level 6 does not offer
C32_GeneratedAtThirdRepetition ==
  /\ Generated
  /\ playerLevel = 8
  /\ quiz.stringIdx = 3
  /\ quiz.fretIdx = 4

\* the next regular level after a level
NextRegularLevel(level) ==
  IF (level + 1) \in EveryThirdFromTwo THEN level + 2 ELSE level + 1

\* C33: from a regular level to the next regular one the envelope changes in at
\* most one coordinate and by at most 1: minString falls by 1 or maxFret rises
\* by 1, never both.
C33_OneStepBetweenRegularLevels ==
  (playerLevel >= 0 /\ playerLevel \notin EveryThirdFromTwo)
    => LET here == getLevelConstraints(playerLevel)
           next == getLevelConstraints(NextRegularLevel(playerLevel))
       IN /\ ~isRepetitionLevel(NextRegularLevel(playerLevel))
          /\ (here.minString - next.minString) \in {0, 1}
          /\ (next.maxFret - here.maxFret) \in {0, 1}
          /\ (here.minString - next.minString) + (next.maxFret - here.maxFret) <= 1

\* a question generated at level 1, whose next regular level 3 lies beyond the
\* repetition level 2 and adds one string
C33_GeneratedBeforeRepetitionSlot ==
  /\ Generated
  /\ playerLevel = 1
  /\ NextRegularLevel(playerLevel) = 3
  /\ getLevelConstraints(3).minString = 4
  /\ quiz.fretIdx = 2

\* C34: for every regular level L >= 0, getProgressionLevel(L) is
\* L - floor(L / 3) and equals the number of regular levels below L.
C34_ProgressionIndexCountsRegularLevels ==
  (playerLevel >= 0 /\ playerLevel \notin EveryThirdFromTwo)
    => /\ ~isRepetitionLevel(playerLevel)
       /\ getProgressionLevel(playerLevel) = RegularLevelsBelow(playerLevel)
       /\ getLevelConstraints(playerLevel) = ProgressionTable(RegularLevelsBelow(playerLevel))

\* a question generated at the regular level 4, the fourth regular level, on
\* the fret its table row 3 adds
C34_GeneratedAtFourthRegularLevel ==
  /\ Generated
  /\ playerLevel = 4
  /\ RegularLevelsBelow(playerLevel) = 3
  /\ quiz.fretIdx = 3

\* C35: with adaptive timing, for every base timer of 2..10 and every accuracy
\* c / max(q, 1) with 0 <= c <= q <= 15 the computed countdown is at least 1,
\* lies between round(0.7 * base) and 2 * base, and is not above the countdown
\* of any lower accuracy.
C35_SecondsBoundedAndFallingWithAccuracy ==
  (lastOp.op = "timer" /\ settings.adaptiveTiming)
    => /\ timer >= 1
       /\ timer >= RoundDiv(7 * settings.baseTimer, 10)
       /\ timer <= 2 * settings.baseTimer
       /\ \A q \in 0..QUESTIONS_PER_ROUND : \A c \in 0..q :
            (c * Max(questionsInRound, 1) < roundScore * Max(q, 1))
              => timer <= getCalculatedTimer([Render EXCEPT !.roundScore = c,
                                                            !.questionsInRound = q])

\* the countdown of a perfect round with base timer 5: round(3.5) = 4
C35_ShortestCountdownOfBaseFive ==
  /\ lastOp.op = "timer"
  /\ settings = [baseTimer |-> 5, adaptiveTiming |-> TRUE]
  /\ roundScore = QUESTIONS_PER_ROUND
  /\ questionsInRound = QUESTIONS_PER_ROUND
  /\ timer = 4

\* a later round has been followed for MaxLaterDeliveries deliveries
LaterRoundCutOff == roundNo > 1 /\ deliveredLater >= MaxLaterDeliveries

\* C31: under fair scheduling of the countdown timeout and of the 1200 ms
\* callbacks, an active round always has a callback scheduled, the first round
\* eventually leaves the active state (completed or stopped) whatever the
\* player does, and so does every later round for as long as it is followed.
\* The fair steps are exactly the steps Tick, AdvanceNext and AdvanceEnd.
C31_RoundEventuallyLeavesActive ==
  /\ [](roundActive => (tickTimeout # NoTimeout \/ advanceTimeouts # <<>>))
  /\ [][/\ Tick <=> TickFires
        /\ AdvanceNext <=> AdvanceNextFires
        /\ AdvanceEnd <=> AdvanceEndFires]_vars
  /\ (roundActive /\ roundNo = 1) ~> ~roundActive
  /\ roundActive ~> (~roundActive \/ LaterRoundCutOff)

\* the first round has run to its end on time-ups alone: no answer was counted
C31_CompletedWithoutAnAnswer ==
  /\ lastOp = Op("complete", 1)
  /\ roundNo = 1
  /\ ~roundActive
  /\ stoppedRounds = {}
  /\ roundScore = 0
  /\ hastyAnswers = 0
  /\ feedback = "retry"

====
